---------------------------- MODULE Spec2Model ----------------------------
(***************************************************************************)
(* A model of .github/workflows/genlistingsyncoptimized.py: the listing    *)
(* parser (cleanListing, Listing.from_listing_text, getDirListAndFileList) *)
(* and the filesystem materializer (createDir, createFile), run by main.   *)
(*                                                                         *)
(* Text is a sequence of one-character strings.  The filesystem is a       *)
(* function from absolute paths (sequences of components, each a sequence  *)
(* of characters) to nodes [kind, content, atime, mtime].                  *)
(***************************************************************************)
EXTENDS Integers, Sequences, FiniteSets, TLC

(***************************************************************************)
(* Bounds of the model.                                                    *)
(***************************************************************************)
\* the longest listing, in lines, that an invocation is given
MaxLines == 3
\* how many times the same command line is run against the target
MaxRuns == 2
\* the access/modification time of everything that exists before the tool runs
OldTime == 1500000000
\* the wall clock when the first run starts (later than every listing timestamp)
BootTime == 1700000000

Procs == {1, 2}

(***************************************************************************)
(* Characters and strings.                                                 *)
(***************************************************************************)
\* str.splitlines() breaks a line at each of these (among others)
LineBreaks == {"\n", "\r", "\f"}
\* what str.strip() strips and the pattern \s matches
WhiteSpace == {" ", "\t", "\n", "\r", "\f"}
DigitChars == <<"0", "1", "2", "3", "4", "5", "6", "7", "8", "9">>
DigitSet == {DigitChars[k] : k \in 1..10}
DigitVal(c) == (CHOOSE k \in 1..10 : DigitChars[k] = c) - 1

\* s[n:]
DropFirst(s, n) == SubSeq(s, n + 1, Len(s))
\* s[0:-1]
DropLast(s) == SubSeq(s, 1, Len(s) - 1)

\* the first position of s that holds a character of cs, Len(s) + 1 when none does
FirstIn(s, cs) ==
    LET at == {n \in 1..Len(s) : s[n] \in cs} \cup {Len(s) + 1}
    IN  CHOOSE n \in at : \A m \in at : n <= m
\* the first position of s that holds a character outside cs
FirstNotIn(s, cs) ==
    LET at == {n \in 1..Len(s) : s[n] \notin cs} \cup {Len(s) + 1}
    IN  CHOOSE n \in at : \A m \in at : n <= m
\* the last position of s that holds a character outside cs, 0 when none does
LastNotIn(s, cs) ==
    LET at == {n \in 1..Len(s) : s[n] \notin cs} \cup {0}
    IN  CHOOSE n \in at : \A m \in at : n >= m

\* str.strip()
strip(s) ==
    LET right == SubSeq(s, 1, LastNotIn(s, WhiteSpace))
    IN  DropFirst(right, FirstNotIn(right, WhiteSpace) - 1)

\* str.splitlines(): a line ends at a line break ("\r\n" is one break); the
\* text after the last break is a line only when it is not empty
RECURSIVE splitlines(_)
splitlines(s) ==
    IF s = <<>> THEN <<>>
    ELSE LET b == FirstIn(s, LineBreaks)
             crlf == b < Len(s) /\ s[b] = "\r" /\ s[b + 1] = "\n"
         IN  IF b > Len(s) THEN <<s>>
             ELSE <<SubSeq(s, 1, b - 1)>>
                    \o splitlines(DropFirst(s, IF crlf THEN b + 1 ELSE b))

\* re.split('\s+', s): the pieces of s between maximal runs of whitespace
RECURSIVE re_split(_)
re_split(s) ==
    LET w == FirstIn(s, WhiteSpace)
        rest == DropFirst(s, w - 1)
    IN  IF w > Len(s) THEN <<s>>
        ELSE <<SubSeq(s, 1, w - 1)>>
               \o re_split(DropFirst(rest, FirstNotIn(rest, WhiteSpace) - 1))

(***************************************************************************)
(* The listing parser.                                                     *)
(***************************************************************************)
\* cleanListing with the filter left out
cleanListing_unfiltered(filenames) == splitlines(filenames)
\* cleanListing: the lines of the text that are not the empty string
cleanListing(filenames) ==
    SelectSeq(splitlines(filenames), LAMBDA filename : filename # <<>>)

\* datalist of from_listing_text
datalist(listing_text) == re_split(strip(listing_text))

\* datalist[2] of a line of exactly two tokens: IndexError
RaisesIndexError(listing_text) == Len(datalist(listing_text)) = 2

\* from_listing_text that removes the last character only when it is "/"
from_listing_text_sep(listing_text, drop_name_prefix) ==
    LET d == datalist(listing_text)
        rest == DropFirst(d[1], Len(drop_name_prefix))
    IN  IF Len(d) > 1
        THEN [size |-> d[1], timestamp |-> d[2],
              name |-> DropFirst(d[3], Len(drop_name_prefix)), is_dir |-> FALSE]
        ELSE [size |-> 0, timestamp |-> <<>>,
              name |-> IF rest # <<>> /\ rest[Len(rest)] = "/" THEN DropLast(rest) ELSE rest,
              is_dir |-> TRUE]
\* Listing.from_listing_text, for a line that does not raise
from_listing_text(listing_text, drop_name_prefix) ==
    LET d == datalist(listing_text)
    IN  IF Len(d) > 1
        THEN [size |-> d[1], timestamp |-> d[2],
              name |-> DropFirst(d[3], Len(drop_name_prefix)), is_dir |-> FALSE]
        ELSE [size |-> 0, timestamp |-> <<>>,
              name |-> DropLast(DropFirst(d[1], Len(drop_name_prefix))),
              is_dir |-> TRUE]

(***************************************************************************)
(* epoch_time_from_dateime_str: strptime with '%Y-%m-%dT%H:%M:%SZ', then   *)
(* calendar.timegm.                                                        *)
(***************************************************************************)
RECURSIVE DigitRun(_, _)
\* how many digits s holds from position k on
DigitRun(s, k) ==
    IF k <= Len(s) /\ s[k] \in DigitSet THEN 1 + DigitRun(s, k + 1) ELSE 0
RECURSIVE NumVal(_, _, _)
\* the number written by the n digits of s that start at position k
NumVal(s, k, n) ==
    IF n = 0 THEN 0 ELSE NumVal(s, k, n - 1) * 10 + DigitVal(s[k + n - 1])
\* a literal character of the format (the pattern is compiled with IGNORECASE)
Lit(s, k, cs) == k <= Len(s) /\ s[k] \in cs

IsLeap(y) == y % 4 = 0 /\ (y % 100 # 0 \/ y % 400 = 0)
DaysInMonth(y, m) ==
    IF m = 2 THEN (IF IsLeap(y) THEN 29 ELSE 28)
    ELSE IF m \in {4, 6, 9, 11} THEN 30 ELSE 31

\* datetime.datetime.strptime(date_time_str, '%Y-%m-%dT%H:%M:%SZ'): the fields,
\* or ok = FALSE where it raises ValueError.  Each directive takes the digits
\* up to the next literal: %Y four digits, the others one or two.
strptime(s) ==
    LET nY == DigitRun(s, 1)
        pm == 1 + nY + 1
        nm == DigitRun(s, pm)
        pd == pm + nm + 1
        nd == DigitRun(s, pd)
        pH == pd + nd + 1
        nH == DigitRun(s, pH)
        pM == pH + nH + 1
        nM == DigitRun(s, pM)
        pS == pM + nM + 1
        nS == DigitRun(s, pS)
        Y == NumVal(s, 1, nY)
        m == NumVal(s, pm, nm)
        d == NumVal(s, pd, nd)
        H == NumVal(s, pH, nH)
        M == NumVal(s, pM, nM)
        S == NumVal(s, pS, nS)
        matches ==
            /\ nY = 4 /\ Lit(s, pm - 1, {"-"})
            /\ nm \in {1, 2} /\ m >= 1 /\ m <= 12 /\ Lit(s, pd - 1, {"-"})
            /\ nd \in {1, 2} /\ d >= 1 /\ d <= 31 /\ Lit(s, pH - 1, {"T", "t"})
            /\ nH \in {1, 2} /\ H <= 23 /\ Lit(s, pM - 1, {":"})
            /\ nM \in {1, 2} /\ M <= 59 /\ Lit(s, pS - 1, {":"})
            /\ nS \in {1, 2} /\ S <= 61 /\ Lit(s, pS + nS, {"Z", "z"})
            /\ Len(s) = pS + nS
        \* the datetime constructor's own range checks
        valid == Y >= 1 /\ d <= DaysInMonth(Y, m) /\ S <= 59
    IN  IF matches /\ valid
        THEN [ok |-> TRUE, year |-> Y, month |-> m, day |-> d,
              hour |-> H, minute |-> M, second |-> S]
        ELSE [ok |-> FALSE, year |-> 0, month |-> 0, day |-> 0,
              hour |-> 0, minute |-> 0, second |-> 0]

RECURSIVE DaysBeforeMonth(_, _)
DaysBeforeMonth(y, m) ==
    IF m = 1 THEN 0 ELSE DaysBeforeMonth(y, m - 1) + DaysInMonth(y, m - 1)
\* datetime.date(y, 1, 1).toordinal()
OrdinalOfJan1(y) ==
    LET p == y - 1 IN p * 365 + (p \div 4) - (p \div 100) + (p \div 400) + 1
\* a conversion through local time one hour east of UTC (time.mktime)
timegm_local(t) ==
    LET days == OrdinalOfJan1(t.year) - OrdinalOfJan1(1970)
                + DaysBeforeMonth(t.year, t.month) + t.day - 1
    IN  ((days * 24 + t.hour) * 60 + t.minute) * 60 + t.second - 3600
\* calendar.timegm
timegm(t) ==
    LET days == OrdinalOfJan1(t.year) - OrdinalOfJan1(1970)
                + DaysBeforeMonth(t.year, t.month) + t.day - 1
    IN  ((days * 24 + t.hour) * 60 + t.minute) * 60 + t.second

\* epoch_time_from_dateime_str, where strptime does not raise
epoch_time_from_dateime_str(date_time_str) == timegm(strptime(date_time_str))

(***************************************************************************)
(* The filesystem under the calls the tool makes: os.path.exists,          *)
(* os.makedirs(exist_ok=True), open(path, 'w+'), the write at close, and   *)
(* os.utime.  A path string resolves to its components ("//" is "/"), and  *)
(* a trailing "/" asks for a directory.                                    *)
(***************************************************************************)
RECURSIVE Components(_)
Components(path) ==
    LET rest == DropFirst(path, FirstNotIn(path, {"/"}) - 1)
        e == FirstIn(rest, {"/"})
    IN  IF rest = <<>> THEN <<>>
        ELSE <<SubSeq(rest, 1, e - 1)>> \o Components(DropFirst(rest, e - 1))
TrailingSlash(path) == path # <<>> /\ path[Len(path)] = "/"

Prefixes(c) == {SubSeq(c, 1, n) : n \in 0..Len(c)}
ProperPrefixes(c) == {SubSeq(c, 1, n) : n \in 0..(Len(c) - 1)}
IsDir(f, c) == c \in DOMAIN f /\ f[c].kind = "dir"
IsFile(f, c) == c \in DOMAIN f /\ f[c].kind = "file"
DirNode(t) == [kind |-> "dir", content |-> <<>>, atime |-> t, mtime |-> t]
FileNode(data, t) == [kind |-> "file", content |-> data, atime |-> t, mtime |-> t]

\* os.path.exists(path): os.stat(path) succeeds
exists(f, path) ==
    LET c == Components(path)
    IN  c \in DOMAIN f /\ (TrailingSlash(path) => f[c].kind = "dir")

\* the exception os.makedirs(path, exist_ok=True) raises, "" when none: mkdir
\* below a file is ENOTDIR, and an existing path that is no directory is
\* re-raised as FileExistsError
makedirs_error(f, path) ==
    LET c == Components(path)
    IN  IF \E q \in ProperPrefixes(c) : IsFile(f, q) THEN "NotADirectoryError"
        ELSE IF IsFile(f, c) THEN "FileExistsError"
        ELSE ""
\* os.makedirs(path, exist_ok=True): every missing directory of the path is
\* made, and a directory that gains an entry has its mtime set
makedirs(f, path, t) ==
    LET c == Components(path)
        made == Prefixes(c) \ DOMAIN f
    IN  [q \in DOMAIN f \cup made |->
            IF q \in made THEN DirNode(t)
            ELSE IF \E m \in made : DropLast(m) = q THEN [f[q] EXCEPT !.mtime = t]
            ELSE f[q]]

\* the exception open(path, 'w+') raises, "" when none
open_error(f, path) ==
    LET c == Components(path)
    IN  IF \E q \in ProperPrefixes(c) : IsFile(f, q) THEN "NotADirectoryError"
        ELSE IF \E q \in ProperPrefixes(c) : q \notin DOMAIN f THEN "FileNotFoundError"
        ELSE IF TrailingSlash(path) \/ IsDir(f, c) THEN "IsADirectoryError"
        ELSE ""
\* open(path, 'w+'): O_CREAT | O_TRUNC.  A file that exists is cut to length
\* zero; a new one is made empty, and its directory's mtime is set
open_w(f, path, t) ==
    LET c == Components(path)
    IN  IF c \in DOMAIN f
        THEN [f EXCEPT ![c].content = <<>>, ![c].mtime = t]
        ELSE [q \in DOMAIN f \cup {c} |->
                IF q = c THEN FileNode(<<>>, t)
                ELSE IF q = DropLast(c) THEN [f[q] EXCEPT !.mtime = t]
                ELSE f[q]]
\* the buffered f.write(data) reaching the file when the with block closes it:
\* data is written at offset 0, over what the file holds there
write_close(f, path, data, t) ==
    LET c == Components(path)
        old == f[c].content
    IN  [f EXCEPT ![c].content = data \o SubSeq(old, Len(data) + 1, Len(old)),
                  ![c].mtime = t]
\* os.utime(path, (t, t))
utime(f, path, t) ==
    LET c == Components(path)
    IN  [f EXCEPT ![c].atime = t, ![c].mtime = t]

FileSizeMarker ==
    <<"f", "i", "l", "e", "_", "s", "i", "z", "e", "=", "=", "=", "=">>

\* argv[2] of every run of the model
SyncDir ==
    <<"/", "t", "m", "p", "/", "s", "y", "n", "c">>

(***************************************************************************)
(* The inputs of the model: listing lines in the format of                 *)
(* "gsutil ls -lr gs://<bucket_name>", the drop prefix, and the target     *)
(* directory as it is before the first run.                                *)
(***************************************************************************)
\* the drop prefix: argv[1]
BucketPrefix ==
    <<"g", "s", ":", "/", "/", "b", "u", "c", "k", "e", "t", "/">>
\* a directory: one token
LineDirA ==
    <<"g", "s", ":", "/", "/", "b", "u", "c", "k", "e", "t", "/", "a", "/">>
\* a directory as gsutil ls -lr prints it: a header ending in a colon
LineDirHeader ==
    <<"g", "s", ":", "/", "/", "b", "u", "c", "k", "e", "t", "/", "a",
      "/", ":">>
\* a file below a/
LineFileA ==
    <<"1", "2", " ", "2", "0", "2", "1", "-", "0", "1", "-", "0", "2",
      "T", "0", "3", ":", "0", "4", ":", "0", "5", "Z", " ", "g", "s",
      ":", "/", "/", "b", "u", "c", "k", "e", "t", "/", "a", "/", "f",
      "i", "l", "e", ".", "t", "x", "t">>
\* a zero-size object whose name ends in the separator
LinePlaceholderA ==
    <<"0", " ", "2", "0", "2", "1", "-", "0", "1", "-", "0", "1", "T",
      "0", "0", ":", "0", "0", ":", "0", "0", "Z", " ", "g", "s", ":",
      "/", "/", "b", "u", "c", "k", "e", "t", "/", "a", "/">>
\* a file at the top of the bucket
LineFileF ==
    <<"7", " ", "2", "0", "2", "1", "-", "0", "6", "-", "0", "1", "T",
      "1", "2", ":", "0", "0", ":", "0", "0", "Z", " ", "g", "s", ":",
      "/", "/", "b", "u", "c", "k", "e", "t", "/", "f">>
\* the same file with another size and time
LineFileF12 ==
    <<"1", "2", " ", "2", "0", "2", "1", "-", "0", "1", "-", "0", "2",
      "T", "0", "3", ":", "0", "4", ":", "0", "5", "Z", " ", "g", "s",
      ":", "/", "/", "b", "u", "c", "k", "e", "t", "/", "f">>
\* a file whose timestamp strptime rejects
LineBadTime ==
    <<"1", "2", " ", "b", "a", "d", " ", "g", "s", ":", "/", "/", "b",
      "u", "c", "k", "e", "t", "/", "g">>
\* a line of two tokens
LineTwoTokens ==
    <<"1", "2", " ", "2", "0", "2", "1", "-", "0", "1", "-", "0", "2",
      "T", "0", "3", ":", "0", "4", ":", "0", "5", "Z">>
\* a directory below f
LineDirFX ==
    <<"g", "s", ":", "/", "/", "b", "u", "c", "k", "e", "t", "/", "f",
      "/", "x", "/">>
\* the empty line
LineEmpty ==
    <<>>
\* a line of whitespace alone
LineBlank ==
    <<" ", " ", "\t">>
\* the bucket itself: the prefix and nothing after it
LineBucket ==
    <<"g", "s", ":", "/", "/", "b", "u", "c", "k", "e", "t", "/">>
\* one token that does not end in the separator
LineNoSep ==
    <<"g", "s", ":", "/", "/", "b", "u", "c", "k", "e", "t", "/", "a", "b">>
\* a token shorter than the prefix
LineShort ==
    <<"g", "s", ":", "/">>
\* a file line with runs of whitespace and no name after the prefix
LineSpaced ==
    <<"7", " ", " ", "b", "a", "d", "\t", "g", "s", ":", "/", "/", "b",
      "u", "c", "k", "e", "t", "/">>
\* two lines in one, parted by a carriage return and a line feed
LineCrLf ==
    <<" ", "x", "/", "\r", "\n", "y", "/", " ">>

Tmp == <<"t", "m", "p">>
Sync == <<"s", "y", "n", "c">>
\* /tmp exists, the target directory does not
FsNoRoot == (<<>> :> DirNode(OldTime)) @@ (<<Tmp>> :> DirNode(OldTime))
\* the target directory exists and is empty
FsEmptyRoot == FsNoRoot @@ (<<Tmp, Sync>> :> DirNode(OldTime))
\* the target directory holds a directory a and a file f
FsPopulated ==
    FsEmptyRoot @@ (<<Tmp, Sync, <<"a">>>> :> DirNode(OldTime))
                @@ (<<Tmp, Sync, <<"f">>>> :> FileNode(<<"o", "l", "d">>, OldTime))
InitialFS == {FsNoRoot, FsEmptyRoot, FsPopulated}

\* the lines of a listing, a line feed between each two
RECURSIVE JoinLines(_)
JoinLines(ls) ==
    IF ls = <<>> THEN <<>>
    ELSE IF Len(ls) = 1 THEN Head(ls)
    ELSE Head(ls) \o <<"\n">> \o JoinLines(Tail(ls))
\* the listings of at most n lines drawn from a set of lines
ListingsOf(lines, n) ==
    {JoinLines(ls) : ls \in UNION {[1..m -> lines] : m \in 0..n}}

SeqLines ==
    {LineDirA, LineDirHeader, LineFileA, LinePlaceholderA, LineFileF,
     LineBadTime, LineTwoTokens, LineDirFX}
SeqTexts == ListingsOf(SeqLines, MaxLines)
ParseLines ==
    {LineEmpty, LineBlank, LineDirA, LineDirHeader, LineBucket, LineNoSep,
     LineShort, LineFileA, LinePlaceholderA, LineTwoTokens, LineSpaced, LineCrLf}
ParseTexts == ListingsOf(ParseLines, MaxLines)
ParsePrefixes == {<<>>, BucketPrefix}
ConcTexts ==
    ListingsOf((SeqLines \ {LineDirHeader}) \cup {LineFileF12}, 1)
        \cup {JoinLines(<<LineDirA, LineFileA>>)}

(***************************************************************************)
(* The state: the filesystem and the clock, which the runs share, and for  *)
(* each run of main its arguments, its locals and its place in the code.   *)
(***************************************************************************)
VARIABLES
    fs,         \* the filesystem
    now,        \* the wall clock new and written files are stamped with
    pc,         \* where each process is in main
    listing,    \* argv[0]
    prefix,     \* argv[1] (init_phrase_to_drop)
    filenames,  \* main's filenames: the cleaned lines
    dir_list,   \* the directory entries parsed so far
    file_list,  \* the file entries parsed so far
    k,          \* how many items the loop a process is in has gone through
    err,        \* the exception that ended the run, "" when none
    runs,       \* how many times the process ran main
    fs0,        \* the filesystem as it was when the current run started
    prev,       \* how the previous run of the process ended, and the filesystem then
    created     \* what createFile made: the path, and the entry it was made for

vars ==
    <<fs, now, pc, listing, prefix, filenames, dir_list, file_list, k, err,
      runs, fs0, prev, created>>

locals == <<filenames, dir_list, file_list, k>>

Init ==
    /\ fs \in InitialFS
    /\ now = BootTime
    /\ pc = [p \in Procs |-> "idle"]
    /\ listing = [p \in Procs |-> <<>>]
    /\ prefix = [p \in Procs |-> <<>>]
    /\ filenames = [p \in Procs |-> <<>>]
    /\ dir_list = [p \in Procs |-> <<>>]
    /\ file_list = [p \in Procs |-> <<>>]
    /\ k = [p \in Procs |-> 0]
    /\ err = [p \in Procs |-> ""]
    /\ runs = [p \in Procs |-> 0]
    /\ fs0 = [p \in Procs |-> fs]
    /\ prev = [p \in Procs |-> [outcome |-> "none", fs |-> fs]]
    /\ created = {}

\* main with three arguments: up to the call of getDirListAndFileList
Main(p, texts, prefixes) ==
    /\ pc[p] = "idle"
    /\ \E text \in texts, drop \in prefixes :
        /\ listing' = [listing EXCEPT ![p] = text]
        /\ prefix' = [prefix EXCEPT ![p] = drop]
        /\ filenames' = [filenames EXCEPT ![p] = cleanListing(text)]
    /\ pc' = [pc EXCEPT ![p] = "parse"]
    /\ runs' = [runs EXCEPT ![p] = 1]
    /\ now' = now + 1
    /\ fs0' = [fs0 EXCEPT ![p] = fs]
    /\ UNCHANGED <<fs, dir_list, file_list, k, err, prev, created>>

\* main with another number of arguments: the usage message and exit status 1
MainUsage(p) ==
    /\ pc[p] = "idle"
    /\ \E argc \in {2, 4} : pc' = [pc EXCEPT ![p] = "exit1"]
    /\ UNCHANGED <<fs, now, listing, prefix, locals, err, runs, fs0, prev, created>>

\* the same command line run again, after the run before it ended
Rerun(p) ==
    /\ pc[p] \in {"done", "error"}
    /\ runs[p] < MaxRuns
    /\ prev' = [prev EXCEPT ![p] = [outcome |-> pc[p], fs |-> fs]]
    /\ filenames' = [filenames EXCEPT ![p] = cleanListing(listing[p])]
    /\ dir_list' = [dir_list EXCEPT ![p] = <<>>]
    /\ file_list' = [file_list EXCEPT ![p] = <<>>]
    /\ k' = [k EXCEPT ![p] = 0]
    /\ err' = [err EXCEPT ![p] = ""]
    /\ pc' = [pc EXCEPT ![p] = "parse"]
    /\ runs' = [runs EXCEPT ![p] = runs[p] + 1]
    /\ now' = now + 1
    /\ fs0' = [fs0 EXCEPT ![p] = fs]
    /\ UNCHANGED <<fs, listing, prefix, created>>

\* an uncaught exception ends the run
Raise(p, exception) ==
    /\ pc' = [pc EXCEPT ![p] = "error"]
    /\ err' = [err EXCEPT ![p] = exception]

\* getDirListAndFileList: one turn of its loop, or its return
GetDirListAndFileList(p) ==
    /\ pc[p] = "parse"
    /\ IF k[p] = Len(filenames[p])
       THEN /\ pc' = [pc EXCEPT ![p] = "createDir"]
            /\ k' = [k EXCEPT ![p] = 0]
            /\ UNCHANGED <<dir_list, file_list, err>>
       ELSE LET filename == filenames[p][k[p] + 1]
            IN  IF RaisesIndexError(filename)
                THEN /\ Raise(p, "IndexError")
                     /\ UNCHANGED <<dir_list, file_list, k>>
                ELSE LET entry == from_listing_text(filename, prefix[p])
                     IN  /\ IF entry.is_dir
                            THEN /\ dir_list' = [dir_list EXCEPT ![p] = Append(@, entry)]
                                 /\ UNCHANGED file_list
                            ELSE /\ file_list' = [file_list EXCEPT ![p] = Append(@, entry)]
                                 /\ UNCHANGED dir_list
                         /\ k' = [k EXCEPT ![p] = k[p] + 1]
                         /\ UNCHANGED <<pc, err>>
    /\ UNCHANGED <<fs, now, listing, prefix, filenames, runs, fs0, prev, created>>

(***************************************************************************)
(* The materializer.  Each system call is a step of its own, so that the   *)
(* steps of two runs against the same target can interleave.               *)
(***************************************************************************)
\* syncdir+"/"+name
PathOf(name) == SyncDir \o <<"/">> \o name

\* createDir that makes no directory
CreateDirNeeded_never(f, dirpath) == FALSE
\* createDir's test: if not os.path.exists(dirpath)
CreateDirNeeded(f, dirpath) == ~exists(f, dirpath)

\* createFile that writes every file of the listing, whether it exists or not
CreateFileNeeded_always(f, filepath) == TRUE
\* createFile's test: if not os.path.exists(filepath)
CreateFileNeeded(f, filepath) == ~exists(f, filepath)

\* createDir: the test of one directory of dir_list, or the return to main
CreateDirCheck(p) ==
    /\ pc[p] = "createDir"
    /\ IF k[p] = Len(dir_list[p])
       THEN /\ pc' = [pc EXCEPT ![p] = "createFile"]
            /\ k' = [k EXCEPT ![p] = 0]
       ELSE IF CreateDirNeeded(fs, PathOf(dir_list[p][k[p] + 1].name))
            THEN /\ pc' = [pc EXCEPT ![p] = "makedirs"]
                 /\ UNCHANGED k
            ELSE /\ k' = [k EXCEPT ![p] = k[p] + 1]
                 /\ UNCHANGED pc
    /\ UNCHANGED <<fs, now, listing, prefix, filenames, dir_list, file_list,
                   err, runs, fs0, prev, created>>

\* createDir: os.makedirs(dirpath, exist_ok=True)
CreateDirMake(p) ==
    /\ pc[p] = "makedirs"
    /\ LET dirpath == PathOf(dir_list[p][k[p] + 1].name)
       IN  IF makedirs_error(fs, dirpath) = ""
           THEN /\ fs' = makedirs(fs, dirpath, now)
                /\ k' = [k EXCEPT ![p] = k[p] + 1]
                /\ pc' = [pc EXCEPT ![p] = "createDir"]
                /\ UNCHANGED err
           ELSE /\ Raise(p, makedirs_error(fs, dirpath))
                /\ UNCHANGED <<fs, k>>
    /\ UNCHANGED <<now, listing, prefix, filenames, dir_list, file_list, runs,
                   fs0, prev, created>>

\* createFile: the test of one file of file_list, or the return to main
CreateFileCheck(p) ==
    /\ pc[p] = "createFile"
    /\ IF k[p] = Len(file_list[p])
       THEN /\ pc' = [pc EXCEPT ![p] = "done"]
            /\ UNCHANGED k
       ELSE IF CreateFileNeeded(fs, PathOf(file_list[p][k[p] + 1].name))
            THEN /\ pc' = [pc EXCEPT ![p] = "open"]
                 /\ UNCHANGED k
            ELSE /\ k' = [k EXCEPT ![p] = k[p] + 1]
                 /\ UNCHANGED pc
    /\ UNCHANGED <<fs, now, listing, prefix, filenames, dir_list, file_list,
                   err, runs, fs0, prev, created>>

\* createFile: open(filepath, 'w+')
CreateFileOpen(p) ==
    /\ pc[p] = "open"
    /\ LET file == file_list[p][k[p] + 1]
           filepath == PathOf(file.name)
       IN  IF open_error(fs, filepath) = ""
           THEN /\ fs' = open_w(fs, filepath, now)
                /\ created' =
                     IF Components(filepath) \in DOMAIN fs THEN created
                     ELSE created \cup {[path |-> Components(filepath),
                                         size |-> file.size,
                                         timestamp |-> file.timestamp]}
                /\ pc' = [pc EXCEPT ![p] = "write"]
                /\ UNCHANGED err
           ELSE /\ Raise(p, open_error(fs, filepath))
                /\ UNCHANGED <<fs, created>>
    /\ UNCHANGED <<now, listing, prefix, locals, runs, fs0, prev>>

\* createFile: f.write("file_size===="+file.size), and the end of the with block
CreateFileWrite(p) ==
    /\ pc[p] = "write"
    /\ LET file == file_list[p][k[p] + 1]
       IN  fs' = write_close(fs, PathOf(file.name), FileSizeMarker \o file.size, now)
    /\ pc' = [pc EXCEPT ![p] = "utime"]
    /\ UNCHANGED <<now, listing, prefix, locals, err, runs, fs0, prev, created>>

\* createFile: epoch_time_from_dateime_str(file.timestamp), then os.utime
CreateFileUtime(p) ==
    /\ pc[p] = "utime"
    /\ LET file == file_list[p][k[p] + 1]
       IN  IF strptime(file.timestamp).ok
           THEN /\ fs' = utime(fs, PathOf(file.name),
                               epoch_time_from_dateime_str(file.timestamp))
                /\ k' = [k EXCEPT ![p] = k[p] + 1]
                /\ pc' = [pc EXCEPT ![p] = "createFile"]
                /\ UNCHANGED err
           ELSE /\ Raise(p, "ValueError")
                /\ UNCHANGED <<fs, k>>
    /\ UNCHANGED <<now, listing, prefix, filenames, dir_list, file_list, runs,
                   fs0, prev, created>>

\* main from the call of createDir on
Materialize(p) ==
    \/ CreateDirCheck(p)
    \/ CreateDirMake(p)
    \/ CreateFileCheck(p)
    \/ CreateFileOpen(p)
    \/ CreateFileWrite(p)
    \/ CreateFileUtime(p)

(***************************************************************************)
(* One instance of the tool, run up to MaxRuns times with the same         *)
(* arguments.                                                              *)
(***************************************************************************)
Next ==
    \/ Main(1, SeqTexts, {BucketPrefix})
    \/ MainUsage(1)
    \/ Rerun(1)
    \/ GetDirListAndFileList(1)
    \/ Materialize(1)
Spec == Init /\ [][Next]_vars

(***************************************************************************)
(* The parser alone, over every listing of ParseTexts.                     *)
(***************************************************************************)
NextParse ==
    \/ Main(1, ParseTexts, ParsePrefixes)
    \/ GetDirListAndFileList(1)
SpecParse == Init /\ [][NextParse]_vars

(***************************************************************************)
(* Two instances of the tool run at once against the same target.          *)
(***************************************************************************)
NextConc ==
    \E p \in Procs :
        \/ Main(p, ConcTexts, {BucketPrefix})
        \/ GetDirListAndFileList(p)
        \/ Materialize(p)
SpecConc == Init /\ [][NextConc]_vars

(***************************************************************************)
(* What the claims are stated with.                                        *)
(***************************************************************************)
\* the lines of a text that are not empty, counted on the text itself: the
\* places where a character that is no line break starts the text or follows
\* a line break
CountNonEmptyLines(text) ==
    Cardinality({n \in 1..Len(text) :
                    /\ text[n] \notin LineBreaks
                    /\ (n = 1 \/ text[n - 1] \in LineBreaks)})
\* a line of whitespace alone
AllBlank(line) == \A n \in 1..Len(line) : line[n] \in WhiteSpace
\* a line that holds one token: no whitespace between its first and its last
\* character that is not whitespace
SingleToken(line) ==
    \A n \in FirstNotIn(line, WhiteSpace)..LastNotIn(line, WhiteSpace) :
        line[n] \notin WhiteSpace
\* the token of such a line
TokenOf(line) == SelectSeq(line, LAMBDA c : c \notin WhiteSpace)
\* the lines getDirListAndFileList has gone through
Parsed(p) == SubSeq(filenames[p], 1, k[p])
\* the one-token lines among them, in order
SingleTokenLines(p) == SelectSeq(Parsed(p), SingleToken)
Parsing(p) == pc[p] \in {"parse", "error"}
\* s without its last character when that is the path separator
TrimSeparator(s) == IF s # <<>> /\ s[Len(s)] = "/" THEN DropLast(s) ELSE s

\* C5: for a listing text with N non-empty lines, cleanListing followed by
\* getDirListAndFileList returns two lists whose lengths sum to N; while the
\* loop runs they sum to the number of lines gone through.
C5_EntryCount ==
    /\ pc[1] = "createDir" =>
          Len(dir_list[1]) + Len(file_list[1]) = CountNonEmptyLines(listing[1])
    /\ pc[1] = "parse" => Len(dir_list[1]) + Len(file_list[1]) = k[1]
\* a listing of three non-empty lines and an empty one, parsed into both lists
C5_Witness ==
    /\ pc[1] = "createDir"
    /\ CountNonEmptyLines(listing[1]) = 3
    /\ Len(splitlines(listing[1])) > 3
    /\ dir_list[1] # <<>>
    /\ file_list[1] # <<>>

\* C6: a line of whitespace alone produces no entry: no line that
\* getDirListAndFileList turns into an entry is made of whitespace only.
C6_BlankLinesFiltered ==
    Parsing(1) => \A n \in 1..k[1] : ~AllBlank(filenames[1][n])

\* C8: every entry from_listing_text produces, directory or file, has a name
\* that is not empty.
C8_NameNeverEmpty ==
    /\ \A n \in 1..Len(dir_list[1]) : dir_list[1][n].name # <<>>
    /\ \A n \in 1..Len(file_list[1]) : file_list[1][n].name # <<>>

\* C9 as claimed: each one-token line gives a directory entry named by the
\* token without the drop prefix, from whose end a trailing path separator,
\* and no other character, is removed.
C9_OnlySeparatorRemoved ==
    Parsing(1) =>
        /\ Len(dir_list[1]) = Len(SingleTokenLines(1))
        /\ \A n \in 1..Len(dir_list[1]) :
              LET token == TokenOf(SingleTokenLines(1)[n])
              IN  dir_list[1][n].name
                    = TrimSeparator(DropFirst(token, Len(prefix[1])))
\* C9 as amended: each one-token line gives a directory entry whose name is
\* the token without its first Len(prefix) characters and without its last
\* character, whatever that character is.
C9_LastCharacterRemoved ==
    Parsing(1) =>
        /\ Len(dir_list[1]) = Len(SingleTokenLines(1))
        /\ \A n \in 1..Len(dir_list[1]) :
              LET token == TokenOf(SingleTokenLines(1)[n])
                  name == dir_list[1][n].name
                  drop == Len(prefix[1])
              IN  /\ dir_list[1][n].is_dir
                  /\ Len(name) = (IF Len(token) > drop + 1
                                  THEN Len(token) - drop - 1 ELSE 0)
                  /\ \A m \in 1..Len(name) : name[m] = token[drop + m]
\* a directory entry made from a token that does not end in the separator,
\* and that lost a character of its name
C9_Witness ==
    /\ Parsing(1)
    /\ \E n \in 1..Len(dir_list[1]) :
          LET token == TokenOf(SingleTokenLines(1)[n])
          IN  /\ token # <<>>
              /\ token[Len(token)] # "/"
              /\ dir_list[1][n].name # <<>>
              /\ Len(token) = Len(prefix[1]) + Len(dir_list[1][n].name) + 1

\* the paths below the target directory
UnderRoot(c) == Len(c) > 2 /\ SubSeq(c, 1, 2) = <<Tmp, Sync>>
DirA == <<Tmp, Sync, <<"a">>>>
FileATxt == <<Tmp, Sync, <<"a">>, <<"f", "i", "l", "e", ".", "t", "x", "t">>>>
FileF == <<Tmp, Sync, <<"f">>>>
\* the first run of the tool on an empty target directory
FirstRunOnEmptyRoot ==
    runs[1] = 1 /\ prefix[1] = BucketPrefix /\ fs0[1] = FsEmptyRoot
\* the listing of the end-to-end scenario, and the same with the directory
\* given as a one-token line
E2EListing == JoinLines(<<LinePlaceholderA, LineFileA>>)
E2EListingOneToken == JoinLines(<<LineDirA, LineFileA>>)
\* what the scenario is to leave: the directory, and the file with the time
\* of 2021-01-02T03:04:05Z
E2EResult ==
    /\ IsDir(fs, DirA)
    /\ IsFile(fs, FileATxt)
    /\ fs[FileATxt].mtime = 1609556645

\* C1 as claimed: main with the two-line listing, the drop prefix gs://bucket/
\* and an empty target completes, and leaves the directory a and the file
\* a/file.txt with the listing's modification time.
C1_EndToEnd ==
    (FirstRunOnEmptyRoot /\ listing[1] = E2EListing) =>
        /\ pc[1] # "error"
        /\ pc[1] = "done" => E2EResult
\* C1 as amended: both lines of that listing have three tokens and are file
\* entries, so the run makes no directory and ends with IsADirectoryError at
\* the open of /tmp/sync/a/, the target left empty; with the directory given as
\* the one-token line gs://bucket/a/ the run raises nothing and leaves the
\* directory and the file, its content the size marker and its times the epoch
\* seconds of 2021-01-02T03:04:05Z.
C1_EndToEndAmended ==
    /\ (FirstRunOnEmptyRoot /\ listing[1] = E2EListing) =>
          /\ fs = FsEmptyRoot
          /\ pc[1] # "done"
          /\ pc[1] \in {"createDir", "createFile", "open", "error"} =>
                dir_list[1] = <<>> /\ Len(file_list[1]) = 2
          /\ pc[1] = "error" => err[1] = "IsADirectoryError"
    /\ (FirstRunOnEmptyRoot /\ listing[1] = E2EListingOneToken) =>
          /\ pc[1] # "error"
          /\ pc[1] = "done" =>
                /\ E2EResult
                /\ fs[FileATxt].atime = 1609556645
                /\ fs[FileATxt].content = FileSizeMarker \o <<"1", "2">>
                /\ DOMAIN fs = DOMAIN FsEmptyRoot \cup {DirA, FileATxt}
\* the scenario's run, ended by the exception
C1_Witness ==
    FirstRunOnEmptyRoot /\ listing[1] = E2EListing /\ pc[1] = "error"

\* C2: when a first run of createDir and createFile completes, a second run
\* with the same listing and target raises nothing and leaves directories,
\* files, contents and times as the first run left them, at every step.
C2_Idempotent ==
    (runs[1] >= 2 /\ prev[1].outcome = "done") =>
        /\ pc[1] # "error"
        /\ fs = prev[1].fs
\* a second run completed, after a first that made a directory and a file
C2_Witness ==
    /\ runs[1] = 2 /\ prev[1].outcome = "done" /\ pc[1] = "done"
    /\ created # {}
    /\ \E c \in DOMAIN fs : c \notin DOMAIN FsPopulated /\ fs[c].kind = "dir"

\* C3 as claimed: every path that exists below the target when a run starts,
\* file or directory, keeps its kind, content and times.
C3_PreExistingUntouched ==
    \A c \in DOMAIN fs0[1] :
        UnderRoot(c) => c \in DOMAIN fs /\ fs[c] = fs0[1][c]
\* C3 as amended: every file that exists below the target when a run starts
\* keeps its content and times, and every directory stays a directory with its
\* access time; a directory's modification time changes when, and only when,
\* the run makes a new entry in it.
C3_PreExistingAmended ==
    \A c \in DOMAIN fs0[1] :
        UnderRoot(c) =>
            /\ c \in DOMAIN fs
            /\ fs[c].kind = fs0[1][c].kind
            /\ fs[c].kind = "file" => fs[c] = fs0[1][c]
            /\ fs[c].kind = "dir" =>
                  /\ fs[c].atime = fs0[1][c].atime
                  /\ fs[c].mtime # fs0[1][c].mtime <=>
                        \E n \in DOMAIN fs \ DOMAIN fs0[1] : DropLast(n) = c
\* a run completed whose listing names the file f, which was there before, and
\* which made a/file.txt in the directory a, which was there before
C3_Witness ==
    /\ pc[1] = "done" /\ runs[1] = 1 /\ fs0[1] = FsPopulated
    /\ FileATxt \in DOMAIN fs
    /\ \E n \in 1..Len(file_list[1]) :
          Components(PathOf(file_list[1][n].name)) = FileF

\* the part of main that is the call of createFile, and what follows it
InFilePhase(p) == pc[p] \in {"createFile", "open", "write", "utime", "done"}
DirsOf(f) == {c \in DOMAIN f : f[c].kind = "dir"}
FilesOf(f) == {c \in DOMAIN f : f[c].kind = "file"}

\* C4: within a run, every directory is made before the first step of file
\* creation: while files are created every directory entry of the listing
\* exists on disk, only os.makedirs makes a directory or changes the set of
\* directories, a file appears only at createFile's open, and no step of
\* createDir follows a step of createFile in the same run.
C4_TwoPhase ==
    /\ [](InFilePhase(1) =>
            \A n \in 1..Len(dir_list[1]) : exists(fs, PathOf(dir_list[1][n].name)))
    /\ [][/\ DirsOf(fs') # DirsOf(fs) => pc[1] = "makedirs"
          /\ FilesOf(fs') # FilesOf(fs) => pc[1] = "open"
          /\ InFilePhase(1) => pc'[1] \notin {"createDir", "makedirs"}]_vars
\* a file being written into a directory that this run made from the listing
C4_Witness ==
    /\ pc[1] = "write"
    /\ \E n \in 1..Len(dir_list[1]) :
          LET d == Components(PathOf(dir_list[1][n].name))
          IN  /\ d \notin DOMAIN fs0[1]
              /\ DropLast(Components(PathOf(file_list[1][k[1] + 1].name))) = d

\* C10: whenever a run completes without error, every file the tool made in
\* that run or an earlier one holds the size marker of its entry and has the
\* UTC epoch seconds of its listing timestamp as access and modification time.
C10_CreatedFilesCarryMetadata ==
    pc[1] = "done" =>
        \A c \in created :
            /\ fs[c.path].content = FileSizeMarker \o c.size
            /\ strptime(c.timestamp).ok
            /\ fs[c.path].mtime = timegm(strptime(c.timestamp))
            /\ fs[c.path].atime = timegm(strptime(c.timestamp))

\* C7: when two instances run at once against the same target, no step of
\* either truncates or rewrites a file that exists with content.
C7_NoFileClobbered ==
    [][\A c \in DOMAIN fs :
          (fs[c].kind = "file" /\ fs[c].content # <<>>) =>
              fs'[c].content = fs[c].content]_vars

=============================================================================
